---- MODULE Spec2Model ----
(***************************************************************************)
(* A model of the medallion store of rental-market-dynamics-dubai:         *)
(* lib/workspace/duckdb_store.py (class DuckDBStore).                      *)
(*                                                                         *)
(* The state is the content of one DuckDB database: the bronze table, the  *)
(* silver table and the seven gold tables, plus the CSV file on disk, the  *)
(* position of the running gold build and the outcome of the last call.    *)
(* The wall clock is an input of the call that reads it.  Every SQL        *)
(* statement of the store is translated to the relational expression it    *)
(* denotes.                                                                *)
(*                                                                         *)
(* The pipeline functions that drive the store (run_etl_pipeline.py, and   *)
(* the older dubai_land_department.py) are modelled after the store, with  *)
(* their own specification, PipelineSpec.  The life of the connection of   *)
(* a store object (construction, with block, close) has the specification  *)
(* LifecycleSpec, and the validation result and the validator of           *)
(* lib/classes/validators.py have ValidationSpec.                          *)
(*                                                                         *)
(* Columns kept: every key column, one descriptive attribute per           *)
(* dimension, the two contract dates, annual_amount, the audit columns and *)
(* the two quality flags.  The Arabic labels, contract_amount, no_of_prop, *)
(* line_number, is_free_hold and the property sub type are carried by the  *)
(* same SQL clauses as the columns kept and are left out.                  *)
(***************************************************************************)
EXTENDS Integers, Sequences, FiniteSets, TLC

VARIABLES
    csv,      \* rows of the CSV file on disk (the snapshot of this run)
    tables,   \* names of the tables that exist in the database
    bronze,   \* rows of bronze.rent_contracts
    silver,   \* rows of silver.rent_contracts
    gold,     \* rows of the seven gold tables, by table name
    pc,       \* position inside gold_create_star_schema ("idle" outside)
    last,     \* the last store call: its name, how it ended (or that it still
              \* runs) and what it returned or raised
    files,    \* names of the files on disk
    run,      \* the call of a pipeline function in progress or just ended:
              \* the function called, the position reached, how it ended, and
              \* the environment and arguments it was called with
    calls,    \* the calls that call has made to its collaborators, in order
    connection, \* self.connection of the store object: None or the connection
    schemas,  \* names of the schemas that exist in the database file
    block,    \* where the client of the store object stands: before the
              \* construction, after a failed one, outside or inside a with
              \* block, or inside one with an exception on its way out
    result,   \* a ValidationResult object a client holds
    validated \* the last validation: the dataset, the mode and the result
              \* validate_dataframe returned (empty before the first one)

storeVars == <<csv, tables, bronze, silver, gold, pc, last>>
pipelineVars == <<files, run, calls>>
lifecycleVars == <<connection, schemas, block>>
validationVars == <<result, validated>>
vars ==
    << csv, tables, bronze, silver, gold, pc, last, files, run, calls,
       connection, schemas, block, result, validated >>

(***************************************************************************)
(* Bounds of the model.                                                    *)
(***************************************************************************)
\* largest number of rows of the CSV file
MaxCsvRows == 2
\* largest number of rows bronze.rent_contracts grows to by appending
MaxBronzeRows == 2
\* largest number of rows of the CSV file a pipeline run finds or downloads
MaxDownloadRows == 1
\* largest number of messages a client adds to one list of a ValidationResult
MaxMessages == 2
\* largest number of rows of a dataset given to the validator
MaxValidatedRows == 2

(***************************************************************************)
(* SQL values.  A nullable BIGINT or DATE is the empty tuple (NULL) or a   *)
(* one-element tuple holding the value.                                    *)
(***************************************************************************)
Null == << >>
Some(n) == <<n>>
IsNull(x) == x = Null
Val(x) == x[1]

\* SQL "a = b" used as a join or filter condition: not true when either is NULL
SqlEq(a, b) == ~IsNull(a) /\ ~IsNull(b) /\ Val(a) = Val(b)

\* ORDER BY ... ASC of DuckDB: NULLS LAST
OrderLe(a, b) == IF IsNull(a) THEN IsNull(b) ELSE (IsNull(b) \/ Val(a) <= Val(b))
OrderLt(a, b) == OrderLe(a, b) /\ a # b

(***************************************************************************)
(* A cell of a numeric-looking CSV column as read_csv_auto delivers it:    *)
(* an integer, a decimal (v in tenths), NULL (the text 'null' or an empty  *)
(* field) or text that is no number.                                       *)
(***************************************************************************)
IntCell(n) == [t |-> "int", v |-> n]
DecCell(tenths) == [t |-> "dec", v |-> tenths]
NullCell == [t |-> "null", v |-> 0]
TextCell == [t |-> "text", v |-> 0]

(***************************************************************************)
(* Calendar dates (DuckDB DATE): the number of days since 2024-01-01.      *)
(***************************************************************************)
Years == 2024..2026

IsLeapYear(y) == (y % 4 = 0 /\ y % 100 # 0) \/ y % 400 = 0

DaysInMonth(y, m) ==
    IF m = 2 THEN (IF IsLeapYear(y) THEN 29 ELSE 28)
    ELSE IF m \in {4, 6, 9, 11} THEN 30 ELSE 31

RECURSIVE DaysBeforeYear(_)
DaysBeforeYear(y) ==
    IF y <= 2024 THEN 0
    ELSE DaysBeforeYear(y - 1) + (IF IsLeapYear(y - 1) THEN 366 ELSE 365)

RECURSIVE DaysBeforeMonth(_, _)
DaysBeforeMonth(y, m) ==
    IF m <= 1 THEN 0 ELSE DaysBeforeMonth(y, m - 1) + DaysInMonth(y, m - 1)

MakeDate(y, m, d) == DaysBeforeYear(y) + DaysBeforeMonth(y, m) + (d - 1)

\* 214749-01-01, the first day of the first year whose date key
\* (2147490101) is no INTEGER: 51586 leap years and 161139 common years
\* after 2024-01-01
FarDate == 51586 * 366 + 161139 * 365

\* the calendar: the year, month and day of every date of Years, and of
\* FarDate
Calendar ==
    [n \in 0..(DaysBeforeYear(2027) - 1) |->
        LET y == CHOOSE y \in Years :
                    DaysBeforeYear(y) <= n /\ n < DaysBeforeYear(y + 1)
            r == n - DaysBeforeYear(y)
            m == CHOOSE m \in 1..12 :
                    /\ DaysBeforeMonth(y, m) <= r
                    /\ r < DaysBeforeMonth(y, m) + DaysInMonth(y, m)
        IN  <<y, m, r - DaysBeforeMonth(y, m) + 1>>]
    @@ (FarDate :> <<214749, 1, 1>>)

YearOf(n) == Calendar[n][1]
MonthOf(n) == Calendar[n][2]
DayOf(n) == Calendar[n][3]

\* the digits strftime('%Y%m%d', d) prints, read as a number
DateKey(n) == YearOf(n) * 10000 + MonthOf(n) * 100 + DayOf(n)

\* the largest INTEGER (32 bits, signed)
IntegerMax == 2147483647

\* CAST(strftime('%Y%m%d', d) AS INTEGER) raises a conversion error when the
\* digits are out of the range of INTEGER: year * 10000 + month * 100 + day
\* exceeds IntegerMax exactly when the year exceeds IntegerMax \div 10000,
\* as month * 100 + day is at most 1231 and IntegerMax % 10000 is 3647
DateKeyRaises(d) == ~IsNull(d) /\ YearOf(Val(d)) > IntegerMax \div 10000

(***************************************************************************)
(* The rows a CSV file is made of.  BaseRow is an ordinary contract; every *)
(* other row differs from it in the columns of one dimension, in the dates *)
(* or in the amount.                                                       *)
(***************************************************************************)
DateA == MakeDate(2024, 1, 30)
DateB == MakeDate(2024, 2, 2)
DateC == MakeDate(2025, 1, 30)

BaseRow ==
    [ contract_id                |-> 1,
      contract_reg_type_id       |-> IntCell(1),
      contract_reg_type_en       |-> "New",
      contract_start_date        |-> Some(DateA),
      contract_end_date          |-> Some(DateB),
      annual_amount              |-> IntCell(500),
      ejari_bus_property_type_id |-> IntCell(1),
      ejari_property_type_id     |-> IntCell(1),
      property_usage_en          |-> "Residential",
      project_number             |-> IntCell(1),
      project_name_en            |-> "Marina",
      area_id                    |-> IntCell(1),
      area_name_en               |-> "Deira",
      actual_area                |-> IntCell(10),
      tenant_type_id             |-> IntCell(1),
      tenant_type_en             |-> "Person" ]

CsvRows ==
    << BaseRow,
       \* contract type
       [BaseRow EXCEPT !.contract_id = 2],
       [BaseRow EXCEPT !.contract_reg_type_id = NullCell],
       \* dates
       [BaseRow EXCEPT !.contract_start_date = Null, !.contract_end_date = Null],
       [BaseRow EXCEPT !.contract_end_date = Null],
       [BaseRow EXCEPT !.contract_start_date = Some(DateB),
                       !.contract_end_date = Some(DateA)],
       [BaseRow EXCEPT !.contract_end_date = Some(DateC)],
       [BaseRow EXCEPT !.contract_start_date = Some(FarDate),
                       !.contract_end_date = Null],
       \* amount
       [BaseRow EXCEPT !.annual_amount = NullCell],
       [BaseRow EXCEPT !.annual_amount = IntCell(0 - 100)],
       [BaseRow EXCEPT !.annual_amount = DecCell(4)],
       [BaseRow EXCEPT !.annual_amount = TextCell],
       \* property
       [BaseRow EXCEPT !.ejari_bus_property_type_id = NullCell],
       [BaseRow EXCEPT !.ejari_property_type_id = NullCell],
       \* project
       [BaseRow EXCEPT !.project_number = NullCell],
       \* location
       [BaseRow EXCEPT !.area_id = NullCell],
       [BaseRow EXCEPT !.actual_area = DecCell(206)],
       \* tenant
       [BaseRow EXCEPT !.tenant_type_id = IntCell(2), !.tenant_type_en = "Authority"] >>

\* the CSV files of at most MaxCsvRows rows.  A table is a bag of rows and no
\* statement of the store reads the position of a row in the file, so the
\* files are taken up to the order of their rows.
CsvFiles ==
    UNION { { [i \in 1..n |-> CsvRows[f[i]]] :
                f \in {g \in [1..n -> DOMAIN CsvRows] :
                          \A i, j \in 1..n : i < j => g[i] <= g[j]} } :
            n \in 0..MaxCsvRows }

\* csv_path.name of the file the pipeline ingests
SourceFile == "rent_contracts.csv"

\* the values datetime.now().isoformat() may have when a call reads it
Stamps == {"T1", "T2"}

(***************************************************************************)
(* Table names and call results.                                           *)
(***************************************************************************)
BronzeTable == "bronze.rent_contracts"
SilverTable == "silver.rent_contracts"
FactTable == "gold.fact_rent_contract"
\* the keys of the dictionary gold_create_star_schema returns
GoldNames ==
    { "dim_date", "dim_contract_type", "dim_property", "dim_project",
      "dim_location", "dim_tenant", "fact_rent_contract" }

\* table_exists(name): the name is in information_schema.tables
table_exists(name) == name \in tables

Returned(op, value) == [op |-> op, status |-> "returned", ret |-> <<value>>]
Raised(op, error) == [op |-> op, status |-> "raised", ret |-> <<error>>]
Running(op) == [op |-> op, status |-> "running", ret |-> << >>]

(***************************************************************************)
(* The store object: DuckDBStore(db_path), close() and the with block      *)
(* (__enter__, __exit__).  Every method reaches the database through       *)
(* self.connection; _connect is called by __init__ only.                   *)
(***************************************************************************)
\* db_path of main, and the default of medallion_pipeline
DbPath == "rental_data.db"

\* the schemas _create_schemas creates
MedallionSchemas == {"bronze", "silver", "gold"}

\* what duckdb.connect may do
ConnectOutcomes == {"returned", "raised"}

\* DuckDBStore(db_path): _connect, then _create_schemas (CREATE SCHEMA IF NOT
\* EXISTS, three times).  What duckdb.connect raises is logged and raised
\* again: the client gets no object.
__init__(db_path) ==
    /\ block = "new"
    /\ \E outcome \in ConnectOutcomes :
          IF outcome = "raised"
          THEN /\ block' = "failed"
               /\ last' = Raised("__init__", "IOException")
               /\ UNCHANGED <<connection, schemas>>
          ELSE /\ connection' = Some(db_path)
               /\ schemas' = schemas \cup MedallionSchemas
               /\ block' = "outside"
               /\ last' = Returned("__init__", "None")

\* close(): "if self.connection:" closes the connection and sets the
\* attribute to None; on a closed store nothing happens
close ==
    /\ block \in {"outside", "inside"}
    /\ IF ~IsNull(connection) THEN connection' = Null ELSE UNCHANGED connection
    /\ last' = Returned("close", "None")
    /\ UNCHANGED <<schemas, block>>

\* __enter__ returns self
__enter__ ==
    /\ block = "outside"
    /\ block' = "inside"
    /\ last' = Returned("__enter__", "self")
    /\ UNCHANGED <<connection, schemas>>

\* An __exit__ that closes the store only when the block ended without an
\* exception.
exit_unless_raising ==
    /\ block \in {"inside", "raising"}
    /\ IF ~IsNull(connection) /\ block = "inside"
       THEN connection' = Null
       ELSE UNCHANGED connection
    /\ block' = "outside"
    /\ last' = Returned("__exit__", IF block = "raising" THEN last.ret[1] ELSE "None")
    /\ UNCHANGED schemas

\* __exit__(exc_type, exc_val, exc_tb): self.close(), whatever exc_type is;
\* it returns None, so an exception of the block goes on to the caller
__exit__ ==
    /\ block \in {"inside", "raising"}
    /\ IF ~IsNull(connection) THEN connection' = Null ELSE UNCHANGED connection
    /\ block' = "outside"
    /\ last' = Returned("__exit__", IF block = "raising" THEN last.ret[1] ELSE "None")
    /\ UNCHANGED schemas

\* DROP SCHEMA IF EXISTS <schema> CASCADE (medallion_pipeline runs it on the
\* bronze and on the silver schema)
DropSchema(schema) == "DROP SCHEMA IF EXISTS " \o schema \o " CASCADE"
\* a query on a table the database does not have
CountMissing == "SELECT COUNT(*) FROM main.missing"
Queries == {DropSchema(schema) : schema \in MedallionSchemas} \cup {CountMissing}

\* an exception raised by a statement of the client: inside a with block it
\* is on its way out of the block
ClientRaises(op, error) ==
    /\ last' = Raised(op, error)
    /\ block' = IF block = "inside" THEN "raising" ELSE block

\* execute(query): self.connection.execute(query).  On a closed store
\* self.connection is None and the attribute access raises AttributeError.
execute(query) ==
    /\ block \in {"outside", "inside"}
    /\ IF IsNull(connection)
       THEN ClientRaises("execute", "AttributeError") /\ UNCHANGED schemas
       ELSE IF query = CountMissing
       THEN ClientRaises("execute", "CatalogException") /\ UNCHANGED schemas
       ELSE /\ schemas' = {schema \in schemas : query # DropSchema(schema)}
            /\ last' = Returned("execute", query)
            /\ UNCHANGED block
    /\ UNCHANGED connection

(***************************************************************************)
(* BRONZE: bronze_ingest_csv(csv_path, "rent_contracts", if_exists).       *)
(***************************************************************************)
\* SELECT *, '<now>' as _ingestion_timestamp, '<name>' as _source_file
\* FROM read_csv_auto(csv_path)
ReadCsv(file, stamp) ==
    [i \in 1..Len(file) |->
        file[i] @@ [_ingestion_timestamp |-> stamp, _source_file |-> SourceFile]]

IfExistsValues == {"replace", "append", "fail", "overwrite"}
CsvPaths == {SourceFile, "missing.csv"}

\* An ingestion whose 'fail' mode writes the table before it finds that the
\* table exists.
bronze_ingest_csv_writing_first(csv_path, if_exists) ==
    /\ pc = "idle"
    /\ IF csv_path # SourceFile
       THEN /\ last' = Raised("bronze_ingest_csv", "FileNotFoundError")
            /\ UNCHANGED <<tables, bronze>>
       ELSE IF if_exists \notin {"replace", "append", "fail"}
       THEN /\ last' = Raised("bronze_ingest_csv", "ValueError")
            /\ UNCHANGED <<tables, bronze>>
       ELSE IF if_exists = "append" /\ ~table_exists(BronzeTable)
       THEN /\ last' = Raised("bronze_ingest_csv", "CatalogException")
            /\ UNCHANGED <<tables, bronze>>
       ELSE IF if_exists = "fail" /\ table_exists(BronzeTable)
       THEN \E stamp \in Stamps :
            /\ bronze' = ReadCsv(csv, stamp)
            /\ last' = Raised("bronze_ingest_csv", "CatalogException")
            /\ UNCHANGED tables
       ELSE \E stamp \in Stamps :
            /\ if_exists = "append" => Len(bronze) + Len(csv) <= MaxBronzeRows
            /\ bronze' = IF if_exists = "append"
                         THEN bronze \o ReadCsv(csv, stamp)
                         ELSE ReadCsv(csv, stamp)
            /\ tables' = tables \cup {BronzeTable}
            /\ last' = Returned("bronze_ingest_csv", Len(bronze'))
    /\ UNCHANGED <<csv, silver, gold, pc>>

bronze_ingest_csv(csv_path, if_exists) ==
    /\ pc = "idle"
    /\ IF csv_path # SourceFile
       THEN \* the path does not exist
            /\ last' = Raised("bronze_ingest_csv", "FileNotFoundError")
            /\ UNCHANGED <<tables, bronze>>
       ELSE IF if_exists \notin {"replace", "append", "fail"}
       THEN /\ last' = Raised("bronze_ingest_csv", "ValueError")
            /\ UNCHANGED <<tables, bronze>>
       ELSE IF if_exists = "append" /\ ~table_exists(BronzeTable)
       THEN \* INSERT INTO a table that does not exist
            /\ last' = Raised("bronze_ingest_csv", "CatalogException")
            /\ UNCHANGED <<tables, bronze>>
       ELSE IF if_exists = "fail" /\ table_exists(BronzeTable)
       THEN \* CREATE TABLE of a table that exists
            /\ last' = Raised("bronze_ingest_csv", "CatalogException")
            /\ UNCHANGED <<tables, bronze>>
       ELSE \E stamp \in Stamps :
            /\ if_exists = "append" => Len(bronze) + Len(csv) <= MaxBronzeRows
            /\ bronze' = IF if_exists = "append"
                         THEN bronze \o ReadCsv(csv, stamp)
                         ELSE ReadCsv(csv, stamp)
            /\ tables' = tables \cup {BronzeTable}
            /\ last' = Returned("bronze_ingest_csv", Len(bronze'))
    /\ UNCHANGED <<csv, silver, gold, pc>>

(***************************************************************************)
(* SILVER: silver_clean_rent_contracts().                                  *)
(***************************************************************************)
\* the columns the statement casts with CAST(col AS BIGINT)
CastColumns ==
    { "contract_reg_type_id", "annual_amount", "ejari_bus_property_type_id",
      "ejari_property_type_id", "project_number", "area_id", "actual_area",
      "tenant_type_id" }

\* CAST(col AS BIGINT) raises a conversion error on text that is no number
CastRaises(cell) == cell.t = "text"

\* CAST(col AS BIGINT) of a value it accepts: a decimal is rounded to the
\* nearest integer (the rows of the model hold no decimal ending in .5)
CastBigint(cell) ==
    IF cell.t = "null" THEN Null
    ELSE IF cell.t = "int" THEN Some(cell.v)
    ELSE IF cell.v >= 0 THEN Some((cell.v + 5) \div 10)
    ELSE Some(0 - ((5 - cell.v) \div 10))

\* the literal the statement stores: the SQL text is no f-string, so the
\* braces are never substituted
CleanedTimestamp == "{datetime.now().isoformat()}"

\* CASE WHEN contract_start_date IS NULL OR contract_end_date IS NULL
HasDateIssues(r) == IsNull(r.contract_start_date) \/ IsNull(r.contract_end_date)

\* CASE WHEN annual_amount <= 0 OR annual_amount IS NULL, where annual_amount
\* is the column of bronze.rent_contracts (a column of the FROM table is
\* bound before an alias of the select list)
HasAmountIssues(r) == r.annual_amount.t = "null" \/ r.annual_amount.v <= 0

CleanRow(r) ==
    [ contract_id                |-> r.contract_id,
      contract_reg_type_id       |-> CastBigint(r.contract_reg_type_id),
      contract_reg_type_en       |-> r.contract_reg_type_en,
      contract_start_date        |-> r.contract_start_date,
      contract_end_date          |-> r.contract_end_date,
      annual_amount              |-> CastBigint(r.annual_amount),
      ejari_bus_property_type_id |-> CastBigint(r.ejari_bus_property_type_id),
      ejari_property_type_id     |-> CastBigint(r.ejari_property_type_id),
      property_usage_en          |-> r.property_usage_en,
      project_number             |-> CastBigint(r.project_number),
      project_name_en            |-> r.project_name_en,
      area_id                    |-> CastBigint(r.area_id),
      area_name_en               |-> r.area_name_en,
      actual_area                |-> CastBigint(r.actual_area),
      tenant_type_id             |-> CastBigint(r.tenant_type_id),
      tenant_type_en             |-> r.tenant_type_en,
      _ingestion_timestamp       |-> r._ingestion_timestamp,
      _source_file               |-> r._source_file,
      _cleaned_timestamp         |-> CleanedTimestamp,
      _has_date_issues           |-> HasDateIssues(r),
      _has_amount_issues         |-> HasAmountIssues(r) ]

\* A cleaning that keeps the first row of every contract_id (the
\* deduplication the docstring of the method announces).
CleanTableDeduplicated(rows) ==
    LET keep == {i \in 1..Len(rows) :
                    \A j \in 1..(i - 1) : rows[j].contract_id # rows[i].contract_id}
    IN  [k \in 1..Cardinality(keep) |->
            CleanRow(rows[CHOOSE i \in keep : Cardinality({j \in keep : j <= i}) = k])]

\* A cleaning that adds the cleaned rows to the table it finds (INSERT INTO
\* silver.rent_contracts SELECT ... in place of CREATE OR REPLACE TABLE).
CleanTableAppended(rows) == silver \o [i \in 1..Len(rows) |-> CleanRow(rows[i])]

\* CREATE OR REPLACE TABLE silver.rent_contracts AS SELECT ... FROM bronze
CleanTable(rows) == [i \in 1..Len(rows) |-> CleanRow(rows[i])]

silver_clean_rent_contracts ==
    /\ pc = "idle"
    /\ IF ~table_exists(BronzeTable)
       THEN /\ last' = Raised("silver_clean_rent_contracts", "CatalogException")
            /\ UNCHANGED <<tables, silver>>
       ELSE IF \E i \in 1..Len(bronze) : \E c \in CastColumns : CastRaises(bronze[i][c])
       THEN \* the statement fails as a whole and the old table stays
            /\ last' = Raised("silver_clean_rent_contracts", "ConversionException")
            /\ UNCHANGED <<tables, silver>>
       ELSE /\ silver' = CleanTable(bronze)
            /\ tables' = tables \cup {SilverTable}
            /\ last' = Returned("silver_clean_rent_contracts", Len(silver'))
    /\ UNCHANGED <<csv, bronze, gold, pc>>

(***************************************************************************)
(* GOLD: gold_create_star_schema() and the statements it runs, one action  *)
(* per method, in the order of the calls.                                  *)
(***************************************************************************)
GoldTable(n) == "gold." \o n

\* get_row_count("gold." + n)
get_row_count(n) == Cardinality(gold[n])

\* the silver rows that WHERE col IS NOT NULL keeps
SilverWhereNotNull(col) == {i \in 1..Len(silver) : ~IsNull(silver[i][col])}

\* the orders ROW_NUMBER() OVER (ORDER BY col1, col2) may number the rows of
\* a subquery in: ascending in the ORDER BY columns, rows that tie in any
\* order (ORDER BY col is ORDER BY col, col)
Numberings(rows, col1, col2) ==
    {s \in [1..Cardinality(rows) -> rows] :
        /\ \A i, j \in DOMAIN s : i # j => s[i] # s[j]
        /\ \A i, j \in DOMAIN s : i < j =>
              \/ OrderLt(s[i][col1], s[j][col1])
              \/ s[i][col1] = s[j][col1] /\ OrderLe(s[i][col2], s[j][col2])}

\* A calendar made of the dates the contracts have (SELECT DISTINCT over the
\* start and end dates of the rows that have both) instead of the
\* generated series.
DateRangeOfContracts ==
    LET complete == SilverWhereNotNull("contract_start_date")
                        \cap SilverWhereNotNull("contract_end_date")
    IN  {Val(silver[i].contract_start_date) : i \in complete}
            \cup {Val(silver[i].contract_end_date) : i \in complete}

\* min_date + INTERVAL (n) DAY for n in generate_series(0, max_date - min_date),
\* with min_date and max_date taken over the rows that have both dates
DateRange ==
    LET complete == SilverWhereNotNull("contract_start_date")
                        \cap SilverWhereNotNull("contract_end_date")
        starts == {Val(silver[i].contract_start_date) : i \in complete}
        ends == {Val(silver[i].contract_end_date) : i \in complete}
        min_date == CHOOSE d \in starts : \A e \in starts : d <= e
        max_date == CHOOSE d \in ends : \A e \in ends : d >= e
    IN  IF complete = {} THEN {}
        ELSE {min_date + n : n \in 0..(max_date - min_date)}

DimDateRow(full_date) ==
    [ date_key     |-> DateKey(full_date),
      full_date    |-> full_date,
      year         |-> YearOf(full_date),
      month        |-> MonthOf(full_date),
      day_of_month |-> DayOf(full_date) ]

\* A gold statement that deletes the rows it has read (DELETE FROM
\* silver.rent_contracts after the SELECT).
GoldFrameConsuming == silver' = << >> /\ UNCHANGED <<csv, bronze>>

\* what every gold statement does to the variables the build does not own
GoldFrame == UNCHANGED <<csv, bronze, silver>>

\* a statement of the build that reads silver.rent_contracts fails when the
\* table does not exist; the exception leaves gold_create_star_schema
GoldRaise ==
    /\ pc' = "idle"
    /\ last' = Raised("gold_create_star_schema", "CatalogException")
    /\ UNCHANGED <<tables, gold>>

\* a statement of the build whose CAST fails: the statement creates nothing,
\* the exception leaves gold_create_star_schema, and the tables the earlier
\* statements of the build created stay as they are
GoldConversionError ==
    /\ pc' = "idle"
    /\ last' = Raised("gold_create_star_schema", "ConversionException")
    /\ UNCHANGED <<tables, gold>>

\* CREATE OR REPLACE TABLE gold.<n> AS <rows>, then the next method
GoldCreate(n, rows, next) ==
    /\ gold' = [gold EXCEPT ![n] = rows]
    /\ tables' = tables \cup {GoldTable(n)}
    /\ pc' = next
    /\ UNCHANGED last

\* A build that does not look for gold.fact_rent_contract first and always
\* runs the seven statements.
gold_create_star_schema_always ==
    /\ pc = "idle"
    /\ pc' = "dim_date"
    /\ last' = Running("gold_create_star_schema")
    /\ UNCHANGED <<tables, gold>>
    /\ GoldFrame

gold_create_star_schema ==
    /\ pc = "idle"
    /\ IF table_exists(FactTable)
       THEN /\ last' = Returned("gold_create_star_schema",
                                [n \in GoldNames |-> get_row_count(n)])
            /\ UNCHANGED pc
       ELSE /\ pc' = "dim_date"
            /\ last' = Running("gold_create_star_schema")
    /\ UNCHANGED <<tables, gold>>
    /\ GoldFrame

_gold_create_dim_date ==
    /\ pc = "dim_date"
    /\ IF ~table_exists(SilverTable)
       THEN GoldRaise
       ELSE IF \E d \in DateRange : DateKeyRaises(Some(d))
       THEN GoldConversionError
       ELSE GoldCreate("dim_date", {DimDateRow(d) : d \in DateRange},
                       "dim_contract_type")
    /\ GoldFrame

\* SELECT DISTINCT contract_reg_type_id, contract_id, contract_reg_type_en
\* FROM silver.rent_contracts WHERE contract_reg_type_id IS NOT NULL
ContractTypeRows ==
    { [ contract_reg_type_id |-> silver[i].contract_reg_type_id,
        contract_id          |-> silver[i].contract_id,
        contract_reg_type_en |-> silver[i].contract_reg_type_en ] :
      i \in SilverWhereNotNull("contract_reg_type_id") }

_gold_create_dim_contract_type ==
    /\ pc = "dim_contract_type"
    /\ \E s \in Numberings(ContractTypeRows,
                            "contract_reg_type_id", "contract_reg_type_id") :
          GoldCreate("dim_contract_type",
                     {s[k] @@ [contract_type_key |-> k] : k \in DOMAIN s},
                     "dim_property")
    /\ GoldFrame

\* SELECT DISTINCT ejari_bus_property_type_id, ejari_property_type_id,
\* property_usage_en FROM silver.rent_contracts
\* WHERE ejari_bus_property_type_id IS NOT NULL
PropertyRows ==
    { [ ejari_bus_property_type_id |-> silver[i].ejari_bus_property_type_id,
        ejari_property_type_id     |-> silver[i].ejari_property_type_id,
        property_usage_en          |-> silver[i].property_usage_en ] :
      i \in SilverWhereNotNull("ejari_bus_property_type_id") }

_gold_create_dim_property ==
    /\ pc = "dim_property"
    /\ \E s \in Numberings(PropertyRows,
                            "ejari_bus_property_type_id", "ejari_property_type_id") :
          GoldCreate("dim_property",
                     {s[k] @@ [property_key |-> k] : k \in DOMAIN s},
                     "dim_project")
    /\ GoldFrame

\* SELECT DISTINCT project_number, project_name_en FROM silver.rent_contracts
\* WHERE project_number IS NOT NULL
ProjectRows ==
    { [ project_number  |-> silver[i].project_number,
        project_name_en |-> silver[i].project_name_en ] :
      i \in SilverWhereNotNull("project_number") }

_gold_create_dim_project ==
    /\ pc = "dim_project"
    /\ \E s \in Numberings(ProjectRows, "project_number", "project_number") :
          GoldCreate("dim_project",
                     {s[k] @@ [project_key |-> k] : k \in DOMAIN s},
                     "dim_location")
    /\ GoldFrame

\* SELECT DISTINCT area_id, area_name_en, actual_area FROM silver.rent_contracts
\* (the subquery has no WHERE clause)
LocationRows ==
    { [ area_id      |-> silver[i].area_id,
        area_name_en |-> silver[i].area_name_en,
        actual_area  |-> silver[i].actual_area ] :
      i \in 1..Len(silver) }

\* A build that calls _gold_create_fact_table right after the location
\* dimension, before the tenant dimension it joins.
_gold_create_dim_location_then_fact ==
    /\ pc = "dim_location"
    /\ \E s \in Numberings(LocationRows, "area_id", "area_id") :
          GoldCreate("dim_location",
                     {s[k] @@ [location_key |-> k] : k \in DOMAIN s},
                     "fact")
    /\ GoldFrame

_gold_create_dim_location ==
    /\ pc = "dim_location"
    /\ \E s \in Numberings(LocationRows, "area_id", "area_id") :
          GoldCreate("dim_location",
                     {s[k] @@ [location_key |-> k] : k \in DOMAIN s},
                     "dim_tenant")
    /\ GoldFrame

\* SELECT DISTINCT tenant_type_id, tenant_type_en FROM silver.rent_contracts
\* WHERE tenant_type_id IS NOT NULL
TenantRows ==
    { [ tenant_type_id |-> silver[i].tenant_type_id,
        tenant_type_en |-> silver[i].tenant_type_en ] :
      i \in SilverWhereNotNull("tenant_type_id") }

_gold_create_dim_tenant ==
    /\ pc = "dim_tenant"
    /\ \E s \in Numberings(TenantRows, "tenant_type_id", "tenant_type_id") :
          GoldCreate("dim_tenant",
                     {s[k] @@ [tenant_key |-> k] : k \in DOMAIN s},
                     "fact")
    /\ GoldFrame

(***************************************************************************)
(* The fact table.                                                         *)
(***************************************************************************)
\* AGE(end, start) of DuckDB, the months field of the interval it returns
\* (12 * years + months): the year, month and day fields are subtracted, a
\* negative day difference borrows the length of the earlier date's month,
\* a negative month difference borrows a year, and the sign is that of
\* end - start
AgeMonths(end, start) ==
    LET lo == IF end < start THEN end ELSE start
        hi == IF end < start THEN start ELSE end
        day_diff == DayOf(hi) - DayOf(lo)
        month_diff == (MonthOf(hi) - MonthOf(lo)) - (IF day_diff < 0 THEN 1 ELSE 0)
        year_diff == (YearOf(hi) - YearOf(lo)) - (IF month_diff < 0 THEN 1 ELSE 0)
        months == year_diff * 12 + (IF month_diff < 0 THEN month_diff + 12 ELSE month_diff)
    IN  IF end < start THEN 0 - months ELSE months

\* EXTRACT(MONTH FROM interval): the months field modulo 12, keeping its sign
ExtractMonth(months) ==
    IF months < 0 THEN 0 - ((0 - months) % 12) ELSE months % 12

\* CASE WHEN both dates are present THEN EXTRACT(MONTH FROM AGE(end, start))
ContractDurationMonths(r) ==
    IF ~IsNull(r.contract_start_date) /\ ~IsNull(r.contract_end_date)
    THEN Some(ExtractMonth(AgeMonths(Val(r.contract_end_date),
                                     Val(r.contract_start_date))))
    ELSE Null

\* CAST(strftime('%Y%m%d', d) AS INTEGER) of a nullable date
NullableDateKey(d) == IF IsNull(d) THEN Null ELSE Some(DateKey(Val(d)))

\* LEFT JOIN dim ON <on>, for one row of the left side: the key of every
\* dimension row the condition matches, or one NULL when it matches none
LeftJoin(matches, key) ==
    IF matches = {} THEN {Null} ELSE {Some(d[key]) : d \in matches}

\* The contract type lookup as an inner join: a row without a match is lost.
JoinContractTypeInner(r) ==
    { Some(d.contract_type_key) :
        d \in {e \in gold["dim_contract_type"] :
                  SqlEq(r.contract_reg_type_id, e.contract_reg_type_id)} }

JoinContractType(r) ==
    LeftJoin({d \in gold["dim_contract_type"] :
                SqlEq(r.contract_reg_type_id, d.contract_reg_type_id)},
             "contract_type_key")

JoinProject(r) ==
    LeftJoin({d \in gold["dim_project"] :
                SqlEq(r.project_number, d.project_number)},
             "project_key")

JoinProperty(r) ==
    LeftJoin({d \in gold["dim_property"] :
                /\ SqlEq(r.ejari_bus_property_type_id, d.ejari_bus_property_type_id)
                /\ SqlEq(r.ejari_property_type_id, d.ejari_property_type_id)},
             "property_key")

JoinLocation(r) ==
    LeftJoin({d \in gold["dim_location"] : SqlEq(r.area_id, d.area_id)},
             "location_key")

JoinTenant(r) ==
    LeftJoin({d \in gold["dim_tenant"] : SqlEq(r.tenant_type_id, d.tenant_type_id)},
             "tenant_key")

\* one row of the join.  rc is the position of the silver row it comes from
\* (the table has no such column; the model keeps it to tell the rows of
\* the join apart).  rent_contract_key = ROW_NUMBER() OVER () numbers the
\* rows 1..COUNT(*) in an order the engine chooses and is not stored.
FactRow(i, ct, p, prj, l, t) ==
    LET rc == silver[i]
    IN  [ rc                       |-> i,
          contract_type_key        |-> ct,
          property_key             |-> p,
          project_key              |-> prj,
          location_key             |-> l,
          tenant_key               |-> t,
          start_date_key           |-> NullableDateKey(rc.contract_start_date),
          end_date_key             |-> NullableDateKey(rc.contract_end_date),
          contract_start_date      |-> rc.contract_start_date,
          contract_end_date        |-> rc.contract_end_date,
          annual_amount            |-> rc.annual_amount,
          contract_duration_months |-> ContractDurationMonths(rc),
          _cleaned_timestamp       |-> rc._cleaned_timestamp,
          _has_date_issues         |-> rc._has_date_issues,
          _has_amount_issues       |-> rc._has_amount_issues ]

\* FROM silver.rent_contracts rc LEFT JOIN ... (five joins)
FactRows ==
    UNION { { FactRow(i, ct, p, prj, l, t) :
                ct \in JoinContractType(silver[i]),
                p \in JoinProperty(silver[i]),
                prj \in JoinProject(silver[i]),
                l \in JoinLocation(silver[i]),
                t \in JoinTenant(silver[i]) } :
            i \in 1..Len(silver) }

_gold_create_fact_table ==
    /\ pc = "fact"
    /\ IF \E i \in 1..Len(silver) :
             \/ DateKeyRaises(silver[i].contract_start_date)
             \/ DateKeyRaises(silver[i].contract_end_date)
       THEN GoldConversionError
       ELSE GoldCreate("fact_rent_contract", FactRows, "indexes")
    /\ GoldFrame

\* CREATE INDEX IF NOT EXISTS ... (seven statements, no rows change), then
\* gold_create_star_schema returns the row counts
_gold_create_indexes ==
    /\ pc = "indexes"
    /\ pc' = "idle"
    /\ last' = Returned("gold_create_star_schema",
                        [n \in GoldNames |-> get_row_count(n)])
    /\ UNCHANGED <<tables, gold>>
    /\ GoldFrame

(***************************************************************************)
(* The view of the contracts that expire soon.                             *)
(***************************************************************************)
\* days_window, the default of create_expiring_view and the value
\* medallion_pipeline passes
DaysWindow == 15

ExpiringView == "gold.v_expiring_contracts_15d"

\* the values CURRENT_DATE may have when the view is counted
Todays == {DateA, DateB + 1}

\* WHERE contract_end_date >= CURRENT_DATE
\*   AND contract_end_date <= CURRENT_DATE + INTERVAL 'days_window days'
Expiring(today, days_window) ==
    {i \in 1..Len(silver) :
        /\ ~IsNull(silver[i].contract_end_date)
        /\ Val(silver[i].contract_end_date) >= today
        /\ Val(silver[i].contract_end_date) <= today + days_window}

\* create_expiring_view(days_window): CREATE OR REPLACE VIEW ... FROM
\* silver.rent_contracts WHERE ..., then SELECT COUNT(*) of the view; the
\* CREATE fails when the table does not exist
create_expiring_view(days_window) ==
    /\ pc = "idle"
    /\ IF ~table_exists(SilverTable)
       THEN /\ last' = Raised("create_expiring_view", "CatalogException")
            /\ UNCHANGED tables
       ELSE \E today \in Todays :
            /\ tables' = tables \cup {ExpiringView}
            /\ last' = Returned("create_expiring_view",
                                Cardinality(Expiring(today, days_window)))
    /\ UNCHANGED gold
    /\ GoldFrame
    /\ UNCHANGED pc

(***************************************************************************)
(* A ValidationResult as its constructor leaves it.                        *)
(***************************************************************************)
ValidationResult ==
    [errors |-> << >>, warnings |-> << >>, info |-> << >>, is_valid |-> TRUE]

(***************************************************************************)
(* The store after DuckDBStore(db_path) on a new database file, with the   *)
(* CSV snapshot of the run on disk.  The calls of the store are made by a  *)
(* client of the class; no pipeline function runs.                         *)
(***************************************************************************)
EmptyGold == [n \in GoldNames |-> {}]

\* no pipeline function has been called
NoRun ==
    [ entry |-> "none", at |-> "done", status |-> "returned", error |-> "",
      url |-> Null, token |-> Null, publish |-> FALSE, release |-> FALSE,
      notes |-> Null ]

\* the store object of the client: constructed, outside a with block
StoreOpen ==
    /\ connection = Some(DbPath)
    /\ schemas = MedallionSchemas
    /\ block = "outside"

\* no validation has been made
NoValidation ==
    /\ result = ValidationResult
    /\ validated = << >>

\* what a call of the store leaves alone
StoreFrame == UNCHANGED <<files, run, calls, connection, schemas, block,
                          result, validated>>

Init ==
    /\ csv \in CsvFiles
    /\ tables = {}
    /\ bronze = << >>
    /\ silver = << >>
    /\ gold = EmptyGold
    /\ pc = "idle"
    /\ last = Returned("__init__", 0)
    /\ files = {SourceFile}
    /\ run = NoRun
    /\ calls = << >>
    /\ StoreOpen
    /\ NoValidation

Next ==
    \/ /\ \E p \in CsvPaths, m \in IfExistsValues : bronze_ingest_csv(p, m)
       /\ StoreFrame
    \/ silver_clean_rent_contracts /\ StoreFrame
    \/ gold_create_star_schema /\ StoreFrame
    \/ _gold_create_dim_date /\ StoreFrame
    \/ _gold_create_dim_contract_type /\ StoreFrame
    \/ _gold_create_dim_property /\ StoreFrame
    \/ _gold_create_dim_project /\ StoreFrame
    \/ _gold_create_dim_location /\ StoreFrame
    \/ _gold_create_dim_tenant /\ StoreFrame
    \/ _gold_create_fact_table /\ StoreFrame
    \/ _gold_create_indexes /\ StoreFrame

Spec == Init /\ [][Next]_vars

(***************************************************************************)
(* The pipeline functions of run_etl_pipeline.py and of the older          *)
(* dubai_land_department.py.  A function is called (Invoke) with the       *)
(* environment and arguments of the call, then runs position by position;  *)
(* the functions main calls are positions of main and can be called on     *)
(* their own.  The collaborators whose code is outside this repository's   *)
(* src/ (RentContractsDownloader, RentContractsTransformer, StarSchema,    *)
(* GitHubRelease) are inputs: each call of one returns or raises.          *)
(***************************************************************************)
\* a value of DLD_URL that names a source
DldUrl == "https://dld.example/rent_contracts"
\* the parquet files the older pipeline writes and publishes
ParquetFile == "dld_rent_contracts.parquet"
\* release_notes of main
ReleaseNotes == "RELEASE_NOTES.md"
\* the release notes a call of publish_artifacts_to_github may be given:
\* none (the default), or a path
NotesValues == {Null, Some(ReleaseNotes)}

\* os.getenv(name): None, the empty string or a value
UrlValues == {Null, Some(""), Some(DldUrl)}
TokenValues == {Null, Some("token")}
\* "if not value": None and the empty string are false
NotSet(value) == IsNull(value) \/ Val(value) = ""

\* one call to a collaborator: what was called, with what, how it ended
Call(name, arg, outcome) == [call |-> name, arg |-> arg, outcome |-> outcome]

\* the function at the current position returns and the caller goes on at
\* next ("done": the function called from outside returns)
Returns(next) ==
    run' = [run EXCEPT !.at = next,
                       !.status = IF next = "done" THEN "returned" ELSE "running"]

\* an exception leaves the function at the current position; every caller
\* up to the function called from outside logs it and raises it again
Raises(error) == run' = [run EXCEPT !.status = "raised", !.error = error]

At(position) == run.status = "running" /\ run.at = position

\* the functions a client or the command line calls
EntryPoints ==
    { "main", "dubai_land_department.main", "download_rent_contracts",
      "medallion_pipeline", "publish_artifacts_to_github" }

\* the two functions a run of the pipeline starts with
Mains == {"main", "dubai_land_department.main"}

\* a call of a pipeline function, in an environment that has DLD_URL = url
\* and GH_TOKEN = token (download_rent_contracts is given the url as its
\* argument), with main's argument publish_to_github = publish, on a day
\* whose release exists on GitHub (release) or does not, and with the
\* release notes publish_artifacts_to_github is given (main gives it
\* RELEASE_NOTES.md)
Invoke(entry, url, token, publish, release, notes) ==
    /\ run.status # "running"
    /\ entry = "main" => notes = Some(ReleaseNotes)
    /\ entry \notin {"main", "publish_artifacts_to_github"} => notes = Null
    /\ entry \notin Mains => release = FALSE
    /\ entry = "download_rent_contracts" => url = Some(DldUrl)
    /\ entry \in {"medallion_pipeline", "publish_artifacts_to_github"} => url = Null
    /\ entry \in {"download_rent_contracts", "medallion_pipeline"} => token = Null
    /\ entry # "main" => publish = FALSE
    /\ run' = [ entry |-> entry, at |-> entry, status |-> "running", error |-> "",
                url |-> url, token |-> token, publish |-> publish,
                release |-> release, notes |-> notes ]
    /\ calls' = << >>
    /\ UNCHANGED files
    /\ UNCHANGED storeVars

\* A main that does not look at DLD_URL before it starts the download.
main_without_url_check ==
    /\ At("main")
    /\ Returns("download_rent_contracts")
    /\ UNCHANGED <<files, calls>>
    /\ UNCHANGED storeVars

\* run_etl_pipeline.main up to the try block: without DLD_URL it logs an
\* error and returns
main ==
    /\ At("main")
    /\ IF NotSet(run.url) THEN Returns("done") ELSE Returns("download_rent_contracts")
    /\ UNCHANGED <<files, calls>>
    /\ UNCHANGED storeVars

\* the CSV files a pipeline run finds on disk or downloads
DownloadFiles == {f \in CsvFiles : Len(f) <= MaxDownloadRows}

\* what RentContractsDownloader(url).run(filename) may do: save the file and
\* return True, find no download link and return False, or raise
DownloadOutcomes == {"True", "False", "raised"}

\* the position after download_rent_contracts in the function that called it
AfterDownload ==
    IF run.entry = "main" THEN "medallion_pipeline"
    ELSE IF run.entry = "dubai_land_department.main" THEN "transform_rent_contracts"
    ELSE "done"

\* A download that does not look for the file first.
download_rent_contracts_always(url, filename) ==
    /\ At("download_rent_contracts")
    /\ \E outcome \in DownloadOutcomes :
          /\ calls' = calls \o << Call("RentContractsDownloader", url, "returned"),
                                  Call("run", filename, outcome) >>
          /\ IF outcome = "True"
             THEN /\ csv' \in DownloadFiles
                  /\ files' = files \cup {filename}
             ELSE UNCHANGED <<csv, files>>
          /\ IF outcome = "raised" THEN Raises("DownloadError") ELSE Returns(AfterDownload)
    /\ UNCHANGED <<tables, bronze, silver, gold, pc, last>>

download_rent_contracts(url, filename) ==
    /\ At("download_rent_contracts")
    /\ IF filename \in files
       THEN \* os.path.isfile(filename): skip
            /\ Returns(AfterDownload)
            /\ UNCHANGED <<csv, files, calls>>
       ELSE \E outcome \in DownloadOutcomes :
            /\ calls' = calls \o << Call("RentContractsDownloader", url, "returned"),
                                    Call("run", filename, outcome) >>
            /\ IF outcome = "True"
               THEN /\ csv' \in DownloadFiles
                    /\ files' = files \cup {filename}
               ELSE UNCHANGED <<csv, files>>
            /\ IF outcome = "raised" THEN Raises("DownloadError") ELSE Returns(AfterDownload)
    /\ UNCHANGED <<tables, bronze, silver, gold, pc, last>>

\* medallion_pipeline(csv_file, db_path): DuckDBStore(db_path) creates or
\* opens the database file; bronze_ingest_csv runs with if_exists = "replace";
\* store.export_to_parquet is no attribute of DuckDBStore, so the statement
\* after a successful ingest raises AttributeError.  Either exception leaves
\* the with block (close) and medallion_pipeline.
medallion_pipeline(csv_file) ==
    /\ At("medallion_pipeline")
    /\ bronze_ingest_csv(IF csv_file \in files THEN csv_file ELSE "missing.csv",
                         "replace")
    /\ files' = files \cup {DbPath}
    /\ IF last'.status = "raised"
       THEN /\ calls' = calls \o << Call("DuckDBStore", DbPath, "returned"),
                                    Call("bronze_ingest_csv", csv_file, "raised"),
                                    Call("close", DbPath, "returned") >>
            /\ Raises(last'.ret[1])
       ELSE /\ calls' = calls \o << Call("DuckDBStore", DbPath, "returned"),
                                    Call("bronze_ingest_csv", csv_file, "returned"),
                                    Call("export_to_parquet", BronzeTable, "raised"),
                                    Call("close", DbPath, "returned") >>
            /\ Raises("AttributeError")

\* what GitHubRelease.publish may do
PublishOutcomes == {"returned", "raised"}

\* the files list a call of publish_artifacts_to_github is given
PublishArtifacts == <<DbPath, ParquetFile>>

\* all_files = files.copy(), with release_notes appended "if release_notes
\* and os.path.exists(release_notes)"
AllFiles(artifacts, release_notes) ==
    IF ~NotSet(release_notes) /\ Val(release_notes) \in files
    THEN Append(artifacts, Val(release_notes))
    ELSE artifacts

\* [f for f in all_files if os.path.exists(f)]
RECURSIVE ExistingFiles(_)
ExistingFiles(all_files) ==
    IF all_files = << >> THEN << >>
    ELSE (IF Head(all_files) \in files THEN <<Head(all_files)>> ELSE << >>)
            \o ExistingFiles(Tail(all_files))

\* A publication that does not filter the list: it publishes all_files,
\* the missing ones included.
publish_artifacts_to_github_unfiltered(artifacts, release_notes) ==
    /\ At("publish_artifacts_to_github")
    /\ IF NotSet(run.token)
       THEN Returns("done") /\ UNCHANGED calls
       ELSE \E outcome \in PublishOutcomes :
            /\ calls' = calls \o << Call("GitHubRelease", "repo", "returned"),
                                    Call("publish",
                                         AllFiles(artifacts, release_notes),
                                         outcome) >>
            /\ IF outcome = "raised" THEN Raises("PublishError") ELSE Returns("done")
    /\ UNCHANGED files
    /\ UNCHANGED storeVars

\* publish_artifacts_to_github(files, release_notes): without GH_TOKEN it
\* logs a warning and returns; with none of the files on disk it logs an
\* error and returns; else it publishes the files that exist, in the order
\* of the list, and raises what publish raises
publish_artifacts_to_github(artifacts, release_notes) ==
    /\ At("publish_artifacts_to_github")
    /\ IF NotSet(run.token)
       THEN Returns("done") /\ UNCHANGED calls
       ELSE IF ExistingFiles(AllFiles(artifacts, release_notes)) = << >>
       THEN Returns("done") /\ UNCHANGED calls
       ELSE \E outcome \in PublishOutcomes :
            /\ calls' = calls \o << Call("GitHubRelease", "repo", "returned"),
                                    Call("publish",
                                         ExistingFiles(AllFiles(artifacts, release_notes)),
                                         outcome) >>
            /\ IF outcome = "raised" THEN Raises("PublishError") ELSE Returns("done")
    /\ UNCHANGED files
    /\ UNCHANGED storeVars

\* dubai_land_department.main up to the release check: without DLD_URL it
\* logs an error and returns; GitHubRelease(repo) raises ValueError without
\* GH_TOKEN; when the release of today exists it logs and returns
dubai_land_department_main ==
    /\ At("dubai_land_department.main")
    /\ IF NotSet(run.url)
       THEN Returns("done") /\ UNCHANGED calls
       ELSE IF NotSet(run.token)
       THEN /\ calls' = calls \o << Call("GitHubRelease", "repo", "raised") >>
            /\ Raises("ValueError")
       ELSE /\ calls' = calls \o << Call("GitHubRelease", "repo", "returned"),
                                    Call("release_exists", "release-today",
                                         IF run.release THEN "True" ELSE "False") >>
            /\ IF run.release THEN Returns("done")
               ELSE Returns("download_rent_contracts")
    /\ UNCHANGED files
    /\ UNCHANGED storeVars

\* what RentContractsTransformer.transform, StarSchema.transform and
\* write_parquet may do
TransformOutcomes == {"returned", "raised"}

\* transform_rent_contracts(input_file, output_file): without the input file
\* it logs an error and returns; with the output file on disk it does nothing
transform_rent_contracts(input_file, output_file) ==
    /\ At("transform_rent_contracts")
    /\ IF input_file \notin files \/ output_file \in files
       THEN Returns("star_schema") /\ UNCHANGED <<files, calls>>
       ELSE \E outcome \in TransformOutcomes :
            /\ calls' = calls \o << Call("RentContractsTransformer", input_file, "returned"),
                                    Call("transform", output_file, outcome) >>
            /\ IF outcome = "raised"
               THEN Raises("TransformError") /\ UNCHANGED files
               ELSE Returns("star_schema") /\ files' = files \cup {output_file}
    /\ UNCHANGED storeVars

\* main, lines 92-120: pl.scan_parquet(parquet_filename) raises without the
\* file; every dim_*.sql and fact_*.sql query is run and saved
star_schema(parquet_filename) ==
    /\ At("star_schema")
    /\ IF parquet_filename \notin files
       THEN /\ calls' = calls \o << Call("scan_parquet", parquet_filename, "raised") >>
            /\ Raises("FileNotFoundError")
       ELSE \E outcome \in TransformOutcomes :
            /\ calls' = calls \o << Call("scan_parquet", parquet_filename, "returned"),
                                    Call("StarSchema", parquet_filename, outcome) >>
            /\ IF outcome = "raised"
               THEN Raises("TransformError")
               ELSE Returns("publish_to_github_release")
    /\ UNCHANGED files
    /\ UNCHANGED storeVars

\* publish_to_github_release(files): the except clause logs what
\* GitHubRelease or publish raises and the function returns
publish_to_github_release(parquet_files) ==
    /\ At("publish_to_github_release")
    /\ \E outcome \in PublishOutcomes :
          calls' = calls \o << Call("GitHubRelease", "repo", "returned"),
                                Call("publish", parquet_files, outcome) >>
    /\ Returns("done")
    /\ UNCHANGED files
    /\ UNCHANGED storeVars

(***************************************************************************)
(* The pipeline on a machine with a new database: the CSV file of today is *)
(* on disk, with some content, or it is not, and so is the release notes   *)
(* file.                                                                   *)
(***************************************************************************)
PipelineInit ==
    /\ \E notes \in SUBSET {ReleaseNotes} :
          \/ files = {SourceFile} \cup notes /\ csv \in DownloadFiles
          \/ files = notes /\ csv = << >>
    /\ tables = {}
    /\ bronze = << >>
    /\ silver = << >>
    /\ gold = EmptyGold
    /\ pc = "idle"
    /\ last = Returned("__init__", 0)
    /\ run = NoRun
    /\ calls = << >>
    /\ StoreOpen
    /\ NoValidation

\* what a pipeline function leaves alone: the store object of a client and
\* the validation results (medallion_pipeline makes and closes a store
\* object of its own)
PipelineFrame == UNCHANGED <<connection, schemas, block, result, validated>>

PipelineNext ==
    \/ /\ \E entry \in EntryPoints, url \in UrlValues, token \in TokenValues,
             publish \in BOOLEAN, release \in BOOLEAN, notes \in NotesValues :
                 Invoke(entry, url, token, publish, release, notes)
       /\ PipelineFrame
    \/ main /\ PipelineFrame
    \/ dubai_land_department_main /\ PipelineFrame
    \/ download_rent_contracts(run.url, SourceFile) /\ PipelineFrame
    \/ medallion_pipeline(SourceFile) /\ PipelineFrame
    \/ publish_artifacts_to_github(PublishArtifacts, run.notes) /\ PipelineFrame
    \/ transform_rent_contracts(SourceFile, ParquetFile) /\ PipelineFrame
    \/ star_schema(ParquetFile) /\ PipelineFrame
    \/ publish_to_github_release({f \in files : f = ParquetFile}) /\ PipelineFrame

PipelineSpec == PipelineInit /\ [][PipelineNext]_vars

(***************************************************************************)
(* The store with the view of the expiring contracts: the calls of Spec    *)
(* and create_expiring_view, on the CSV file of a pipeline run.            *)
(***************************************************************************)
AggregatorInit ==
    /\ csv \in DownloadFiles
    /\ tables = {}
    /\ bronze = << >>
    /\ silver = << >>
    /\ gold = EmptyGold
    /\ pc = "idle"
    /\ last = Returned("__init__", 0)
    /\ files = {SourceFile}
    /\ run = NoRun
    /\ calls = << >>
    /\ StoreOpen
    /\ NoValidation

AggregatorNext ==
    \/ Next
    \/ create_expiring_view(DaysWindow) /\ StoreFrame

AggregatorSpec == AggregatorInit /\ [][AggregatorNext]_vars

(***************************************************************************)
(* A client of one store object, on a database file that is new or holds   *)
(* schemas of an earlier run: it constructs the store, enters and leaves   *)
(* with blocks, runs statements and closes.  The database holds no table.  *)
(***************************************************************************)
LifecycleInit ==
    /\ connection = Null
    /\ schemas \in SUBSET MedallionSchemas
    /\ block = "new"
    /\ last = Running("__init__")
    /\ csv = << >>
    /\ tables = {}
    /\ bronze = << >>
    /\ silver = << >>
    /\ gold = EmptyGold
    /\ pc = "idle"
    /\ files = {}
    /\ run = NoRun
    /\ calls = << >>
    /\ NoValidation

\* what a step of the client leaves alone
LifecycleFrame ==
    UNCHANGED <<csv, tables, bronze, silver, gold, pc, files, run, calls,
                result, validated>>

LifecycleNext ==
    \/ __init__(DbPath) /\ LifecycleFrame
    \/ close /\ LifecycleFrame
    \/ __enter__ /\ LifecycleFrame
    \/ __exit__ /\ LifecycleFrame
    \/ /\ \E query \in Queries : execute(query)
       /\ LifecycleFrame

LifecycleSpec == LifecycleInit /\ [][LifecycleNext]_vars

(***************************************************************************)
(* The validator (lib/classes/validators.py): ValidationResult and the     *)
(* rules of RentContractValidator.validate_dataframe.  A dataset is the    *)
(* set of its column names and the sequence of its rows; a rule reads a    *)
(* column only when the dataset has it.                                    *)
(***************************************************************************)
add_error(self, message) ==
    [self EXCEPT !.errors = Append(@, message), !.is_valid = FALSE]

\* An add_warning that counts a warning as a failure.
add_warning_invalidating(self, message) ==
    [self EXCEPT !.warnings = Append(@, message), !.is_valid = FALSE]

add_warning(self, message) ==
    [self EXCEPT !.warnings = Append(@, message)]

add_info(self, message) ==
    [self EXCEPT !.info = Append(@, message)]

get_summary(self) ==
    [ errors |-> Len(self.errors), warnings |-> Len(self.warnings),
      info |-> Len(self.info), is_valid |-> self.is_valid ]

\* the columns a dataset must have
RequiredColumns ==
    { "contract_id", "contract_start_date", "contract_end_date",
      "property_usage_en", "annual_amount" }

\* the column sets of the datasets validated: complete, or one column short
ColumnSets ==
    { RequiredColumns, RequiredColumns \ {"contract_id"},
      RequiredColumns \ {"annual_amount"} }

ValidRow ==
    [ contract_id         |-> Some(1),
      contract_start_date |-> Some(DateA),
      contract_end_date   |-> Some(DateB),
      property_usage_en   |-> "Residential",
      annual_amount       |-> Some(500) ]

\* a valid row, a row with a negative rent, a row that ends before it
\* starts, a row without dates, a row without rent
DatasetRows ==
    << ValidRow,
       [ValidRow EXCEPT !.annual_amount = Some(0 - 100)],
       [ValidRow EXCEPT !.contract_start_date = Some(DateB),
                        !.contract_end_date = Some(DateA)],
       [ValidRow EXCEPT !.contract_start_date = Null, !.contract_end_date = Null],
       [ValidRow EXCEPT !.annual_amount = Null] >>

\* the datasets of at most MaxValidatedRows rows; every rule counts rows and
\* none reads the position of a row, so the datasets are taken up to the
\* order of their rows
Datasets ==
    { [columns |-> c, rows |-> r] :
        c \in ColumnSets,
        r \in UNION { { [i \in 1..n |-> DatasetRows[f[i]]] :
                          f \in {g \in [1..n -> DOMAIN DatasetRows] :
                                    \A i, j \in 1..n : i < j => g[i] <= g[j]} } :
                      n \in 0..MaxValidatedRows } }

\* df has every column of cols
HasColumns(df, cols) == cols \subseteq df.columns

\* required columns: one error that lists every missing name
validate_required_fields(df, res) ==
    IF RequiredColumns \ df.columns # {}
    THEN add_error(res, "Missing required columns")
    ELSE res

\* rent amounts: one error when a row has annual_amount <= 0 or null
validate_rent_amounts(df, res) ==
    IF /\ HasColumns(df, {"annual_amount"})
       /\ \E i \in DOMAIN df.rows :
             \/ IsNull(df.rows[i].annual_amount)
             \/ Val(df.rows[i].annual_amount) <= 0
    THEN add_error(res, "rent <= 0")
    ELSE res

\* null critical dates: a warning, an error in strict mode
validate_critical_dates(df, strict_mode, res) ==
    IF /\ HasColumns(df, {"contract_start_date", "contract_end_date"})
       /\ \E i \in DOMAIN df.rows :
             \/ IsNull(df.rows[i].contract_start_date)
             \/ IsNull(df.rows[i].contract_end_date)
    THEN IF strict_mode
         THEN add_error(res, "null critical dates")
         ELSE add_warning(res, "null critical dates")
    ELSE res

\* date ordering: one error when a row with both dates has
\* end_date <= start_date
validate_business_logic(df, res) ==
    IF /\ HasColumns(df, {"contract_start_date", "contract_end_date"})
       /\ \E i \in DOMAIN df.rows :
             /\ ~IsNull(df.rows[i].contract_start_date)
             /\ ~IsNull(df.rows[i].contract_end_date)
             /\ Val(df.rows[i].contract_end_date) <= Val(df.rows[i].contract_start_date)
    THEN add_error(res, "end_date <= start_date")
    ELSE res

\* descriptive statistics, appended whatever the other rules found
validate_info(df, res) ==
    add_info(add_info(res, "row count"), "usage categories")

\* every rule but the emptiness rule, on a result
ValidateRows(df, strict_mode, res) ==
    validate_info(df,
        validate_business_logic(df,
            validate_critical_dates(df, strict_mode,
                validate_rent_amounts(df,
                    validate_required_fields(df, res)))))

\* A validation whose emptiness rule does not stop the pass.
validate_dataframe_every_rule(df, strict_mode) ==
    IF Len(df.rows) = 0
    THEN ValidateRows(df, strict_mode, add_error(ValidationResult, "DataFrame is empty"))
    ELSE ValidateRows(df, strict_mode, ValidationResult)

\* validate_dataframe(df): a new result; zero rows give the emptiness error
\* and end the pass
validate_dataframe(df, strict_mode) ==
    IF Len(df.rows) = 0
    THEN add_error(ValidationResult, "DataFrame is empty")
    ELSE ValidateRows(df, strict_mode, ValidationResult)

\* result.add_error("Test error") of a client
ValidationResult_add_error(message) ==
    /\ Len(result.errors) < MaxMessages
    /\ result' = add_error(result, message)
    /\ UNCHANGED validated

ValidationResult_add_warning(message) ==
    /\ Len(result.warnings) < MaxMessages
    /\ result' = add_warning(result, message)
    /\ UNCHANGED validated

ValidationResult_add_info(message) ==
    /\ Len(result.info) < MaxMessages
    /\ result' = add_info(result, message)
    /\ UNCHANGED validated

\* validate_rent_contracts(df, strict): RentContractValidator(strict_mode =
\* strict).validate_dataframe(df)
validate_rent_contracts(df, strict) ==
    /\ validated' = << [ dataset |-> df, strict |-> strict,
                         result |-> validate_dataframe(df, strict) ] >>
    /\ UNCHANGED result

ValidationInit ==
    /\ NoValidation
    /\ csv = << >>
    /\ tables = {}
    /\ bronze = << >>
    /\ silver = << >>
    /\ gold = EmptyGold
    /\ pc = "idle"
    /\ last = Returned("__init__", 0)
    /\ files = {}
    /\ run = NoRun
    /\ calls = << >>
    /\ StoreOpen

\* what a call of the validator leaves alone
ValidationFrame ==
    UNCHANGED <<csv, tables, bronze, silver, gold, pc, last, files, run, calls,
                connection, schemas, block>>

ValidationNext ==
    \/ ValidationResult_add_error("Test error") /\ ValidationFrame
    \/ ValidationResult_add_warning("Test warning") /\ ValidationFrame
    \/ ValidationResult_add_info("Test info") /\ ValidationFrame
    \/ /\ \E df \in Datasets, strict \in BOOLEAN : validate_rent_contracts(df, strict)
       /\ ValidationFrame

ValidationSpec == ValidationInit /\ [][ValidationNext]_vars

(***************************************************************************)
(* Properties of the star schema.  They are read in the state in which     *)
(* _gold_create_fact_table has just run: every gold table then holds what  *)
(* this build made of the silver table of that state.                      *)
(***************************************************************************)
FactBuilt == pc = "indexes"

SilverRows == 1..Len(silver)

\* the distinct non-null values of a key column of the cleaned table
NaturalKeys(col) == {silver[i][col] : i \in SilverRows} \ {Null}

\* C1: after a gold build that runs, gold.fact_rent_contract has as many
\* rows as silver.rent_contracts
C1_FactRowCount ==
    FactBuilt => get_row_count("fact_rent_contract") = Len(silver)

\* C2: in each of the five non-date dimensions no two rows share the same
\* natural key
C2_NaturalKeyUnique ==
    FactBuilt =>
        /\ \A a, b \in gold["dim_contract_type"] :
              a.contract_reg_type_id = b.contract_reg_type_id => a = b
        /\ \A a, b \in gold["dim_property"] :
              (/\ a.ejari_bus_property_type_id = b.ejari_bus_property_type_id
               /\ a.ejari_property_type_id = b.ejari_property_type_id) => a = b
        /\ \A a, b \in gold["dim_project"] : a.project_number = b.project_number => a = b
        /\ \A a, b \in gold["dim_location"] : a.area_id = b.area_id => a = b
        /\ \A a, b \in gold["dim_tenant"] : a.tenant_type_id = b.tenant_type_id => a = b

\* the surrogate keys of a dimension are 1..n, each on one row
DenseKeys(dim, key, n) ==
    /\ {d[key] : d \in dim} = 1..n
    /\ Cardinality(dim) = n

\* C3: in every non-date dimension the surrogate keys are exactly 1..N with
\* no gap and no repeat, N being the number of distinct non-null natural
\* keys of the cleaned table
C3_SurrogateKeysDense ==
    FactBuilt =>
        /\ DenseKeys(gold["dim_contract_type"], "contract_type_key",
                     Cardinality(NaturalKeys("contract_reg_type_id")))
        /\ DenseKeys(gold["dim_property"], "property_key",
                     Cardinality({ <<silver[i].ejari_bus_property_type_id,
                                     silver[i].ejari_property_type_id>> :
                                   i \in {j \in SilverRows :
                                            /\ ~IsNull(silver[j].ejari_bus_property_type_id)
                                            /\ ~IsNull(silver[j].ejari_property_type_id)} }))
        /\ DenseKeys(gold["dim_project"], "project_key",
                     Cardinality(NaturalKeys("project_number")))
        /\ DenseKeys(gold["dim_location"], "location_key",
                     Cardinality(NaturalKeys("area_id")))
        /\ DenseKeys(gold["dim_tenant"], "tenant_key",
                     Cardinality(NaturalKeys("tenant_type_id")))

\* the fact rows of silver row i
FactOf(i) == {f \in gold["fact_rent_contract"] : f.rc = i}

\* C4: no dimension row has a null natural key (for the property dimension,
\* neither component is null), and a cleaned row whose natural key is null
\* gets a null foreign key in the fact table
C4_NoNullNaturalKey ==
    FactBuilt =>
        /\ \A d \in gold["dim_contract_type"] : ~IsNull(d.contract_reg_type_id)
        /\ \A d \in gold["dim_property"] :
              ~IsNull(d.ejari_bus_property_type_id) /\ ~IsNull(d.ejari_property_type_id)
        /\ \A d \in gold["dim_project"] : ~IsNull(d.project_number)
        /\ \A d \in gold["dim_location"] : ~IsNull(d.area_id)
        /\ \A d \in gold["dim_tenant"] : ~IsNull(d.tenant_type_id)
        /\ \A i \in SilverRows : \A f \in FactOf(i) :
              /\ IsNull(silver[i].contract_reg_type_id) => IsNull(f.contract_type_key)
              /\ (IsNull(silver[i].ejari_bus_property_type_id)
                    \/ IsNull(silver[i].ejari_property_type_id)) => IsNull(f.property_key)
              /\ IsNull(silver[i].project_number) => IsNull(f.project_key)
              /\ IsNull(silver[i].area_id) => IsNull(f.location_key)
              /\ IsNull(silver[i].tenant_type_id) => IsNull(f.tenant_key)

\* the cleaned rows that have both dates
Dated == {i \in SilverRows : ~IsNull(silver[i].contract_start_date)
                             /\ ~IsNull(silver[i].contract_end_date)}

\* lo is the earliest start date and hi the latest end date of the dated rows
IsDateSpan(lo, hi) ==
    /\ \A i \in Dated : lo <= Val(silver[i].contract_start_date)
    /\ \A i \in Dated : Val(silver[i].contract_end_date) <= hi

\* the start dates and the end dates of the dated rows
StartDates == {Val(silver[i].contract_start_date) : i \in Dated}
EndDates == {Val(silver[i].contract_end_date) : i \in Dated}

\* every day of lo..hi is the full_date of a row of gold.dim_date, and no two
\* rows of the table share a full_date or a date_key
EveryDayOnce(lo, hi) ==
    /\ lo..hi \subseteq {r.full_date : r \in gold["dim_date"]}
    /\ Cardinality({r.full_date : r \in gold["dim_date"]}) = get_row_count("dim_date")
    /\ Cardinality({r.date_key : r \in gold["dim_date"]}) = get_row_count("dim_date")

\* C5 as stated: when some cleaned row has both dates, gold.dim_date has
\* exactly (max end - min start) + 1 rows and every day of the span is there
\* exactly once
C5_DateDimSpan ==
    FactBuilt =>
        \A lo \in StartDates, hi \in EndDates :
            IsDateSpan(lo, hi) =>
                /\ get_row_count("dim_date") = (hi - lo) + 1
                /\ EveryDayOnce(lo, hi)

\* C5 amended: when some cleaned row has both dates, gold.dim_date has
\* (max end - min start) + 1 rows if the latest end date is not before the
\* earliest start date, and no row otherwise; every day from the earliest
\* start to the latest end is there exactly once, and no other day is; when
\* no cleaned row has both dates the table is empty
C5_DateDimSpanAmended ==
    FactBuilt =>
        /\ \A lo \in StartDates, hi \in EndDates :
              IsDateSpan(lo, hi) =>
                  /\ get_row_count("dim_date") = (IF hi < lo THEN 0 ELSE (hi - lo) + 1)
                  /\ EveryDayOnce(lo, hi)
                  /\ \A r \in gold["dim_date"] : r.full_date \in lo..hi
        /\ Dated = {} => gold["dim_date"] = {}

\* C5 witness: a built calendar that holds a day on which no contract starts
\* or ends
C5_Witness ==
    /\ FactBuilt
    /\ Dated # {}
    /\ \E r \in gold["dim_date"] :
          \A i \in Dated : /\ Val(silver[i].contract_start_date) # r.full_date
                           /\ Val(silver[i].contract_end_date) # r.full_date

\* C6: every cleaned row appears in the fact table with its own values, and
\* a lookup that matches no dimension row leaves a null foreign key
C6_NoRowDropped ==
    FactBuilt =>
        \A i \in SilverRows :
            /\ FactOf(i) # {}
            /\ \A f \in FactOf(i) :
                  /\ f.contract_start_date = silver[i].contract_start_date
                  /\ f.contract_end_date = silver[i].contract_end_date
                  /\ f.annual_amount = silver[i].annual_amount
                  /\ (\A d \in gold["dim_contract_type"] :
                        ~SqlEq(silver[i].contract_reg_type_id, d.contract_reg_type_id))
                     => IsNull(f.contract_type_key)
                  /\ (\A d \in gold["dim_property"] :
                        ~(/\ SqlEq(silver[i].ejari_bus_property_type_id,
                                   d.ejari_bus_property_type_id)
                          /\ SqlEq(silver[i].ejari_property_type_id,
                                   d.ejari_property_type_id)))
                     => IsNull(f.property_key)
                  /\ (\A d \in gold["dim_project"] :
                        ~SqlEq(silver[i].project_number, d.project_number))
                     => IsNull(f.project_key)
                  /\ (\A d \in gold["dim_location"] :
                        ~SqlEq(silver[i].area_id, d.area_id))
                     => IsNull(f.location_key)
                  /\ (\A d \in gold["dim_tenant"] :
                        ~SqlEq(silver[i].tenant_type_id, d.tenant_type_id))
                     => IsNull(f.tenant_key)

\* C6 witness: a built fact table holding a row whose contract type lookup
\* found no match, next to a row whose lookup matched
C6_Witness ==
    /\ FactBuilt
    /\ \E f \in gold["fact_rent_contract"] :
          IsNull(f.contract_type_key) /\ ~IsNull(f.tenant_key)
    /\ \E f \in gold["fact_rent_contract"] : ~IsNull(f.contract_type_key)

\* the number of whole months from start to end (end not before start): the
\* months between the two calendar months, less one when the day of the
\* month of end is before that of start
WholeMonths(start, end) ==
    (YearOf(end) - YearOf(start)) * 12 + (MonthOf(end) - MonthOf(start))
        - (IF DayOf(end) < DayOf(start) THEN 1 ELSE 0)

\* C7: contract_duration_months of a fact row is the whole-month span of its
\* two dates (a full year counting as 12 months) and null when a date is null
C7_DurationMonths ==
    FactBuilt =>
        \A f \in gold["fact_rent_contract"] :
            IF IsNull(f.contract_start_date) \/ IsNull(f.contract_end_date)
            THEN IsNull(f.contract_duration_months)
            ELSE Val(f.contract_start_date) <= Val(f.contract_end_date) =>
                    f.contract_duration_months =
                        Some(WholeMonths(Val(f.contract_start_date),
                                         Val(f.contract_end_date)))

\* C8: in every cleaned row _has_date_issues is true exactly when a contract
\* date is null and _has_amount_issues exactly when annual_amount is null or
\* <= 0, and the fact rows of the row carry the same two flags
C8_QualityFlags ==
    /\ table_exists(SilverTable) =>
          \A i \in SilverRows :
              /\ silver[i]._has_date_issues =
                    (IsNull(silver[i].contract_start_date)
                        \/ IsNull(silver[i].contract_end_date))
              /\ silver[i]._has_amount_issues =
                    (IsNull(silver[i].annual_amount) \/ Val(silver[i].annual_amount) <= 0)
    /\ FactBuilt =>
          \A i \in SilverRows : \A f \in FactOf(i) :
              /\ f._has_date_issues = silver[i]._has_date_issues
              /\ f._has_amount_issues = silver[i]._has_amount_issues

\* C9: silver_clean_rent_contracts never aborts on a data value: on an
\* existing bronze table it returns, every bronze row has its cleaned row,
\* and text that is no number in a numeric column is cleaned to null
C9_CleanIsTotal ==
    (last.op = "silver_clean_rent_contracts" /\ table_exists(BronzeTable)) =>
        /\ last.status = "returned"
        /\ Len(silver) = Len(bronze)
        /\ \A i \in 1..Len(bronze) : \A c \in CastColumns :
              bronze[i][c].t = "text" => IsNull(silver[i][c])

C11_CleaningIdempotent ==
    [][ /\ ( /\ last.op = "silver_clean_rent_contracts"
             /\ last.status = "returned"
             /\ last'.op = "silver_clean_rent_contracts"
             /\ last'.status = "returned" )
           => (silver' = silver /\ bronze' = bronze)
        /\ ( /\ last'.op = "silver_clean_rent_contracts"
             /\ last'.status = "returned" )
           => \A i, j \in 1..Len(silver') :
                 silver'[i]._cleaned_timestamp = silver'[j]._cleaned_timestamp
      ]_vars

\* C11 witness: the table a cleaning returned with, two rows of bronze rows
\* ingested at different times; a second cleaning ends in this same state
C11_Witness ==
    /\ last = Returned("silver_clean_rent_contracts", 2)
    /\ silver = CleanTable(bronze)
    /\ silver[1]._ingestion_timestamp # silver[2]._ingestion_timestamp
    /\ silver[1]._cleaned_timestamp = silver[2]._cleaned_timestamp

\* C12: gold_create_star_schema called while gold.fact_rent_contract exists
\* changes no gold table and creates none, and returns the row counts of the
\* seven tables it found, whatever silver.rent_contracts holds by then
C12_ExistingSchemaSkipped ==
    [][ ( /\ pc = "idle"
          /\ table_exists(FactTable)
          /\ last'.op = "gold_create_star_schema" )
        => /\ gold' = gold
           /\ tables' = tables
           /\ pc' = "idle"
           /\ last' = Returned("gold_create_star_schema",
                               [n \in GoldNames |-> Cardinality(gold[n])])
      ]_vars

\* C12 witness: the call has returned the counts of a star schema that was
\* built from an earlier silver table: a row of silver.rent_contracts has no
\* row in the fact table
C12_Witness ==
    /\ pc = "idle"
    /\ last.op = "gold_create_star_schema"
    /\ last.status = "returned"
    /\ table_exists(FactTable)
    /\ \E i \in SilverRows : FactOf(i) = {}

\* the six dimension tables the fact statement joins or takes its keys from
DimensionTables == {GoldTable(n) : n \in GoldNames \ {"fact_rent_contract"}}

\* C14: gold.fact_rent_contract exists only when the six dimension tables
\* exist, and the step that creates it starts with all six in place
C14_FactAfterDimensions ==
    [][ (~table_exists(FactTable) /\ FactTable \in tables')
            => DimensionTables \subseteq tables
      ]_vars

\* C14 witness: the build stands between its last dimension and the fact
\* table: six dimensions exist, built from a silver table with rows, and no
\* fact table yet
C14_Witness ==
    /\ pc = "fact"
    /\ DimensionTables \subseteq tables
    /\ ~table_exists(FactTable)
    /\ gold["dim_tenant"] # {}

\* C16: a gold build that fails leaves none of its tables behind: when
\* gold_create_star_schema has raised, no gold table exists (a build starts
\* only while gold.fact_rent_contract is missing, so every gold table found
\* after a failed build was created by a build that failed)
C16_BuildAllOrNothing ==
    (last.op = "gold_create_star_schema" /\ last.status = "raised") =>
        \A n \in GoldNames : ~table_exists(GoldTable(n))

(***************************************************************************)
(* Properties of the pipeline functions, under PipelineSpec.               *)
(***************************************************************************)
\* the calls that are a stage of a run: download, ingest, transformation,
\* publication
StageCalls == {"run", "bronze_ingest_csv", "transform", "StarSchema", "publish"}

\* C15: in a run of main, a stage that raises ends the run: main ends by
\* raising and nothing is called after the failed stage but the close of
\* the store
C15_FailureAborts ==
    run.entry \in Mains =>
        \A i \in DOMAIN calls :
            (calls[i].call \in StageCalls /\ calls[i].outcome = "raised") =>
                /\ run.status = "raised"
                /\ \A j \in DOMAIN calls : j > i => calls[j].call = "close"

\* C17: a run of main without DLD_URL calls no collaborator (no download,
\* no database, no stage, no publication), changes no file and no table,
\* and ends right after the check of the variable
C17_NoUrlNoWork ==
    [][ (run'.entry \in Mains /\ NotSet(run'.url)) =>
            /\ calls' = << >>
            /\ UNCHANGED <<storeVars, files>>
            /\ run'.at \in {run'.entry, "done"}
      ]_vars

\* C17 witness: main(publish_to_github = True) has ended without DLD_URL on a
\* machine that has no CSV file of today, having called nothing
C17_Witness ==
    /\ run.entry = "main"
    /\ run.publish
    /\ NotSet(run.url)
    /\ run.at = "done"
    /\ SourceFile \notin files
    /\ calls = << >>

\* C18: a call that is asked to publish without GH_TOKEN ends by raising:
\* publish_artifacts_to_github, main(publish_to_github = True) and the older
\* main, which always publishes (the mains with DLD_URL set)
C18_NoTokenIsFatal ==
    ( /\ run.status # "running"
      /\ NotSet(run.token)
      /\ \/ run.entry = "publish_artifacts_to_github"
         \/ run.entry = "main" /\ run.publish /\ ~NotSet(run.url)
         \/ run.entry = "dubai_land_department.main" /\ ~NotSet(run.url) )
    => run.status = "raised"

\* C19: a run of main on a day whose release exists calls nothing but the
\* check of the release: no download, no database, no ingestion, no
\* transformation, no publication
C19_ExistingReleaseSkipsRun ==
    (run.entry \in Mains /\ run.release) =>
        \A i \in DOMAIN calls : calls[i].call \in {"GitHubRelease", "release_exists"}

\* C20: download_rent_contracts(url, filename) with the file on disk calls
\* nothing, changes nothing and returns; without the file it constructs
\* RentContractsDownloader(url) once and calls run(filename) once, and
\* nothing else
C20_DownloadSkipsExistingFile ==
    [][ At("download_rent_contracts") =>
            IF SourceFile \in files
            THEN /\ calls' = calls
                 /\ UNCHANGED <<storeVars, files>>
                 /\ run'.status # "raised"
                 /\ run'.at # "download_rent_contracts"
            ELSE /\ Len(calls') = Len(calls) + 2
                 /\ SubSeq(calls', 1, Len(calls)) = calls
                 /\ calls'[Len(calls) + 1].call = "RentContractsDownloader"
                 /\ calls'[Len(calls) + 1].arg = run.url
                 /\ calls'[Len(calls) + 2].call = "run"
                 /\ calls'[Len(calls) + 2].arg = SourceFile
      ]_vars

\* C20 witness: download_rent_contracts has returned without a call, the
\* file being on disk
C20_Witness ==
    /\ run.entry = "download_rent_contracts"
    /\ run.status = "returned"
    /\ SourceFile \in files
    /\ calls = << >>

\* C21: a run of run_etl_pipeline.main with DLD_URL set that found no CSV
\* file and downloaded one has, when it ends, called the downloader's run
\* once and the transformer's transform once, and has returned without
\* raising
C21_CompleteRunCallsEachOnce ==
    ( /\ run.entry = "main"
      /\ ~NotSet(run.url)
      /\ run.status # "running"
      /\ \E i \in DOMAIN calls : calls[i].call = "run" /\ calls[i].outcome = "True" )
    => /\ Cardinality({i \in DOMAIN calls : calls[i].call = "run"}) = 1
       /\ Cardinality({i \in DOMAIN calls : calls[i].call = "transform"}) = 1
       /\ run.status = "returned"

\* C22: publish_artifacts_to_github with GH_TOKEN set and a file to publish
\* calls publish once, with the given files that exist, in the given order,
\* followed by the release notes when they are given and exist; without
\* GH_TOKEN, or with no such file, it calls nothing
C22_PublishesExistingFilesOnce ==
    [][ At("publish_artifacts_to_github") =>
            LET OnDisk(f) == f \in files
                given == SelectSeq(PublishArtifacts, OnDisk)
                expected == IF ~NotSet(run.notes) /\ ReleaseNotes \in files
                            THEN Append(given, ReleaseNotes)
                            ELSE given
                published == {i \in DOMAIN calls' :
                                 i > Len(calls) /\ calls'[i].call = "publish"}
            IN  IF NotSet(run.token) \/ expected = << >>
                THEN calls' = calls
                ELSE /\ Cardinality(published) = 1
                     /\ \A i \in published : calls'[i].arg = expected
      ]_vars

\* C22 witness: a call that was given the database, a parquet file that is
\* not on disk and the release notes has published the database and the
\* release notes, in this order, and returned
C22_Witness ==
    /\ run.entry = "publish_artifacts_to_github"
    /\ run.status = "returned"
    /\ ParquetFile \notin files
    /\ Len(calls) = 2
    /\ calls[2].call = "publish"
    /\ calls[2].arg = <<DbPath, ReleaseNotes>>

(***************************************************************************)
(* Properties of the validator, under ValidationSpec.                      *)
(***************************************************************************)
\* the result of the client and the result validate_dataframe returned last
ValidationResults == {result} \cup {validated[i].result : i \in DOMAIN validated}

\* C23: for a ValidationResult, is_valid is true exactly when the error
\* list is empty: add_error makes it false and it never becomes true again,
\* add_warning and add_info never change it, and get_summary reports the
\* three list lengths and the current is_valid
C23_ValidIffNoErrors ==
    [][ /\ \A r \in ValidationResults' :
              /\ r.is_valid <=> (r.errors = << >>)
              /\ get_summary(r) = [ errors |-> Len(r.errors),
                                    warnings |-> Len(r.warnings),
                                    info |-> Len(r.info),
                                    is_valid |-> (r.errors = << >>) ]
        /\ ~result.is_valid => ~result'.is_valid
        /\ Len(result'.errors) > Len(result.errors) => ~result'.is_valid
        /\ result'.errors = result.errors => result'.is_valid = result.is_valid
      ]_vars

\* C23 witness: a result after add_error, add_warning and add_info, and a
\* validation that returned a warning and no error
C23_Witness ==
    /\ get_summary(result) = [errors |-> 1, warnings |-> 1, info |-> 1,
                              is_valid |-> FALSE]
    /\ \E i \in DOMAIN validated :
          /\ validated[i].result.warnings # << >>
          /\ validated[i].result.errors = << >>

\* C24: the validation of a dataset with zero rows yields exactly one
\* error, the emptiness error, and is_valid false, whatever the columns of
\* the dataset and the mode
C24_EmptyDatasetOneError ==
    \A i \in DOMAIN validated :
        Len(validated[i].dataset.rows) = 0 =>
            /\ validated[i].result.errors = << "DataFrame is empty" >>
            /\ ~validated[i].result.is_valid

\* C24 witness: a dataset with zero rows and without the contract_id column
\* has been validated
C24_Witness ==
    \E i \in DOMAIN validated :
        /\ Len(validated[i].dataset.rows) = 0
        /\ "contract_id" \notin validated[i].dataset.columns
        /\ Len(validated[i].result.errors) = 1

(***************************************************************************)
(* More properties of the store.                                           *)
(***************************************************************************)
\* C25: bronze_ingest_csv returns the number of rows of the CSV file it
\* ingested, in every if_exists mode (under Spec the file does not change)
C25_ReturnsRowsIngested ==
    (last.op = "bronze_ingest_csv" /\ last.status = "returned") =>
        last.ret[1] = Len(csv)

\* C26: gold_create_star_schema, every statement of its build, and
\* create_expiring_view leave silver.rent_contracts as it is: same
\* existence, same rows, same values
C26_CleanedTableReadOnly ==
    [][ last'.op \in {"gold_create_star_schema", "create_expiring_view"} =>
            /\ silver' = silver
            /\ table_exists(SilverTable) <=> SilverTable \in tables'
      ]_vars

\* C26 witness: the view exists and gold_create_star_schema has returned,
\* over a cleaned table that still holds the rows the cleaning made
C26_Witness ==
    /\ ExpiringView \in tables
    /\ pc = "idle"
    /\ last.op = "gold_create_star_schema"
    /\ last.status = "returned"
    /\ Len(silver) > 0
    /\ silver = CleanTable(bronze)

\* C27: a call of bronze_ingest_csv that raises leaves bronze.rent_contracts
\* as it was: same existence, same rows
C27_FailedIngestChangesNothing ==
    [][ (last'.op = "bronze_ingest_csv" /\ last'.status = "raised") =>
            /\ bronze' = bronze
            /\ table_exists(BronzeTable) <=> BronzeTable \in tables'
      ]_vars

\* C27 witness: an ingestion with if_exists = 'fail' has raised on a table
\* that holds rows
C27_Witness ==
    /\ last = Raised("bronze_ingest_csv", "CatalogException")
    /\ table_exists(BronzeTable)
    /\ Len(bronze) > 0

\* C29: every non-null start_date_key and end_date_key of a row of
\* gold.fact_rent_contract is the date_key of a row of gold.dim_date
C29_DateKeysInDimDate ==
    FactBuilt =>
        \A f \in gold["fact_rent_contract"] :
            \A k \in {f.start_date_key, f.end_date_key} :
                ~IsNull(k) => \E d \in gold["dim_date"] : d.date_key = Val(k)

(***************************************************************************)
(* Properties of the store object, under LifecycleSpec.                    *)
(***************************************************************************)
\* C30: the construction leaves the connection open and the three schemas
\* in place; close() leaves the connection None, and on a closed store it
\* changes nothing; leaving a with block leaves the connection None, also
\* when the block raised; no step makes the connection of a closed store
\* anything but None
C30_ConnectionLifecycle ==
    [][ /\ (block = "new" /\ block' = "outside") =>
              /\ connection' = Some(DbPath)
              /\ MedallionSchemas \subseteq schemas'
        /\ last'.op = "close" =>
              /\ IsNull(connection')
              /\ IsNull(connection) => UNCHANGED <<schemas, block>>
        /\ (block \in {"inside", "raising"} /\ block' = "outside") =>
              IsNull(connection')
        /\ (block # "new" /\ IsNull(connection)) => IsNull(connection')
      ]_vars

\* C30 witness: a with block whose statement raised on the open store has
\* been left, and the connection is None
C30_Witness ==
    /\ block = "outside"
    /\ last = Returned("__exit__", "CatalogException")
    /\ IsNull(connection)

====
